---- MODULE Spec2Model ----
(***************************************************************************)
(* Model of src/active_companies.py: get_companies(pull_latest), the       *)
(* pagination loop that drives a browser session over a paginated table,   *)
(* parses each row into a company record and returns the accumulated list. *)
(*                                                                         *)
(* Text is a sequence of one-character strings, so that split("/"),        *)
(* get_text(strip=True) and int() are computed, not assumed.               *)
(***************************************************************************)
EXTENDS Integers, Sequences, FiniteSets, TLC

VARIABLES
    pull_latest,  \* argument of get_companies
    site,         \* the pages the server holds: a sequence of pages, a page is a sequence of rows
    nextOnLast,   \* the page keeps a clickable next-page control on its last page
    file,         \* the output file OUTPUT_JSON
    pc,           \* position in get_companies / init_driver / the module body
    exc,          \* exception in flight ("none" when there is none)
    excAt,        \* the statement that raised exc
    outcome,      \* "running", "returned" or "raised": how the call ended
    result,       \* value of the return statement (delivered when outcome = "returned")
    session,      \* browser session: "none", "open", "quit" (driver.quit was invoked)
    companies,    \* the accumulator
    page_no,      \* the page counter
    rows,         \* rows of the current snapshot still to be processed
    req,          \* page the pagination component has been asked for
    cur,          \* page whose rows the table in the DOM currently shows
    ops,          \* browser operations performed, in order
    passes,       \* page read by each extraction pass, in order
    origin,       \* origin[i] = <<pass, page, row index>> of the row companies[i] was built from
    events        \* what went wrong so far (environment faults and raised errors)

vars == <<pull_latest, site, nextOnLast, file, pc, exc, excAt, outcome, result, session, companies,
          page_no, rows, req, cur, ops, passes, origin, events>>

(***************************** bounds **************************************)
MaxPages == 2     \* pages of a site
MaxRows == 2      \* rows of a page in the combinatorial sites

\* extraction passes that are counted and logged; a run makes more than
\* MaxPages of them only when the next-page control never disappears, and the
\* passes after MaxPasses are folded: the counter and the logs stay as they are
MaxPasses == MaxPages + 1

(***************************** text ****************************************)
DigitChars == {"0", "1", "2", "3", "4", "5", "6", "7", "8", "9"}

DigitVal(c) ==
    CASE c = "0" -> 0 [] c = "1" -> 1 [] c = "2" -> 2 [] c = "3" -> 3 [] c = "4" -> 4
      [] c = "5" -> 5 [] c = "6" -> 6 [] c = "7" -> 7 [] c = "8" -> 8 [] c = "9" -> 9

IsSpace(c) == c = " "

RECURSIVE LStrip(_)
LStrip(s) == IF s # <<>> /\ IsSpace(Head(s)) THEN LStrip(Tail(s)) ELSE s

RECURSIVE RStrip(_)
RStrip(s) == IF s # <<>> /\ IsSpace(s[Len(s)]) THEN RStrip(SubSeq(s, 1, Len(s) - 1)) ELSE s

\* str.strip()
Strip(s) == RStrip(LStrip(s))

\* s.split("/")[-1]: what follows the last "/", the whole string when there is none
LastSegment(s) ==
    LET slashes == {i \in 1..Len(s) : s[i] = "/"}
    IN  IF slashes = {} THEN s
        ELSE LET last == CHOOSE i \in slashes : \A j \in slashes : j <= i
             IN  SubSeq(s, last + 1, Len(s))

\* int(str) accepts: surrounding whitespace, one optional sign, then digits,
\* with single underscores allowed between digits.
Unsigned(s) == IF s # <<>> /\ Head(s) \in {"+", "-"} THEN Tail(s) ELSE s

IntValid(str) ==
    LET b == Unsigned(Strip(str))
    IN  /\ b # <<>>
        /\ \A i \in 1..Len(b) : b[i] \in DigitChars \cup {"_"}
        /\ b[1] \in DigitChars
        /\ b[Len(b)] \in DigitChars
        /\ \A i \in 1..(Len(b) - 1) : ~(b[i] = "_" /\ b[i + 1] = "_")

RECURSIVE DigitsValue(_, _)
DigitsValue(b, acc) ==
    IF b = <<>> THEN acc
    ELSE IF Head(b) = "_" THEN DigitsValue(Tail(b), acc)
    ELSE DigitsValue(Tail(b), 10 * acc + DigitVal(Head(b)))

IntValue(str) ==
    LET t == Strip(str)
        v == DigitsValue(Unsigned(t), 0)
    IN  IF t # <<>> /\ Head(t) = "-" THEN 0 - v ELSE v

(***************************** rows ****************************************)
\* A cell is [text, a]: its text content and the first anchor inside it.
\* An anchor is [present, hasHref, href].
NoAnchor == [present |-> FALSE, hasHref |-> FALSE, href |-> <<>>]
AnchorNoHref == [present |-> TRUE, hasHref |-> FALSE, href |-> <<>>]
Anchor(h) == [present |-> TRUE, hasHref |-> TRUE, href |-> h]

ColLetter == <<"a", "b", "c", "d", "e", "f", "g", "h", "i", "j">>

\* text of column j (1-based), bare or padded with whitespace as rendered markup is
CellText(j, padded) == IF padded THEN <<" ", ColLetter[j], " ">> ELSE <<ColLetter[j]>>

\* a row of n cells whose name cell (cols[1], the second one) holds anchor a
MkRow(n, a, padded) ==
    [j \in 1..n |-> [text |-> CellText(j, padded), a |-> IF j = 2 THEN a ELSE NoAnchor]]

HrefNumeric == <<"/", "c", "/", "4", "8">>
HrefAlpha == <<"/", "c", "/", "x">>
HrefTrailing == <<"/", "c", "/">>
HrefBare == <<"7">>
HrefNegative == <<"/", "-", "3">>
HrefUnderscore == <<"/", "4", "_", "8">>
HrefSpace == <<"/", " ", "5">>
HrefQuery == <<"/", "4", "?", "p">>
HrefBlank == <<"/", " ">>

Hrefs == {<<>>, HrefNumeric, HrefAlpha, HrefTrailing, HrefBare, HrefNegative,
          HrefUnderscore, HrefSpace, HrefQuery, HrefBlank}

Anchors == {NoAnchor, AnchorNoHref} \cup {Anchor(h) : h \in Hrefs}

CellCounts == {0, 1, 2, 7, 8, 9}

AllRows == {MkRow(n, a, p) : n \in CellCounts, a \in Anchors, p \in BOOLEAN}

\* the rows the combinatorial sites are built from
RowGood == MkRow(8, Anchor(HrefNumeric), TRUE)
RowShort == MkRow(7, Anchor(HrefNumeric), FALSE)
RowBadId == MkRow(8, Anchor(HrefAlpha), FALSE)
RowNoHref == MkRow(9, AnchorNoHref, FALSE)

BasicRows == {RowGood, RowShort, RowBadId, RowNoHref}

RECURSIVE SeqsUpTo(_, _)
SeqsUpTo(S, n) ==
    IF n = 0 THEN {<<>>}
    ELSE LET shorter == SeqsUpTo(S, n - 1)
         IN  shorter \cup {Append(q, x) : q \in {r \in shorter : Len(r) = n - 1}, x \in S}

BasicPages == SeqsUpTo(BasicRows, MaxRows)

\* pages the sites of several pages are built from: an empty table, one
\* Record, a skipped row before a Record without id, a row that raises
SamplePages == {<<>>, <<RowGood>>, <<RowShort, RowNoHref>>, <<RowBadId>>}

\* sites of 1..MaxPages sample pages
PagedSites == SeqsUpTo(SamplePages, MaxPages) \ {<<>>}

\* sites whose first page is any sequence of up to MaxRows basic rows,
\* alone or followed by a second page
RowSites == {<<p>> : p \in BasicPages} \cup {<<p, <<RowGood>>>> : p \in BasicPages}

\* the sites explored: the paged sites, the row sites, and two-page sites
\* whose first page is any single row
Sites ==
    PagedSites \cup RowSites \cup {<< <<r>>, <<RowGood, RowNoHref>> >> : r \in AllRows}

\* sites whose pages hold no row of 8 cells: the sites explored with a
\* next-page control that never disappears
LoopSites == SeqsUpTo({<<>>, <<RowShort>>}, MaxPages) \ {<<>>}

\* the sites checked for termination
TermSites == PagedSites \cup RowSites

(***************************** records *************************************)
\* value of the "id" field: an int, None, or (never produced by the code) a str
IntId(n) == [kind |-> "int", int |-> n, str |-> <<>>]
NoneId == [kind |-> "none", int |-> 0, str |-> <<>>]
StrId(s) == [kind |-> "str", int |-> 0, str |-> s]
RaisesValueError == [kind |-> "ValueError", int |-> 0, str |-> <<>>]

\* company_id: a str or None
SomeStr(s) == [some |-> TRUE, str |-> s]
NoneStr == [some |-> FALSE, str |-> <<>>]

\* cols[k] with Python's 0-based k
Col(cols, k) == cols[k + 1]

\* cell.get_text(strip=True) of a cell with one text node
GetText(cell) == Strip(cell.text)

get_regulatory_body(sector_name) == "SEBON"

\* if len(cols) < 8: continue
SkipRow(cols) == Len(cols) < 8

\* link = cols[1].find("a")
\* company_id = link["href"].split("/")[-1] if link and link.get("href") else None
CompanyId(cell) ==
    LET link == cell.a
    IN  IF link.present /\ link.hasHref /\ link.href # <<>>
        THEN SomeStr(LastSegment(link.href))
        ELSE NoneStr

\* IdField without the int() conversion: the path segment is stored as it is
IdField_Str(company_id) ==
    IF company_id.some /\ company_id.str # <<>>
    THEN StrId(company_id.str)
    ELSE NoneId

\* int(company_id) if company_id else None
IdField(company_id) ==
    IF company_id.some /\ company_id.str # <<>>
    THEN IF IntValid(company_id.str) THEN IntId(IntValue(company_id.str))
         ELSE RaisesValueError
    ELSE NoneId

\* MakeRecord with the symbol and status columns exchanged
MakeRecord_Swapped(cols) ==
    LET sector_name == GetText(Col(cols, 4))
    IN  [id             |-> IdField(CompanyId(Col(cols, 1))),
         companyName    |-> GetText(Col(cols, 1)),
         symbol         |-> GetText(Col(cols, 3)),
         securityName   |-> GetText(Col(cols, 1)),
         status         |-> GetText(Col(cols, 2)),
         sectorName     |-> sector_name,
         instrumentType |-> GetText(Col(cols, 5)),
         companyEmail   |-> GetText(Col(cols, 6)),
         website        |-> GetText(Col(cols, 7)),
         regulatoryBody |-> get_regulatory_body(sector_name)]

\* the dict appended for a row of at least 8 cells
MakeRecord(cols) ==
    LET sector_name == GetText(Col(cols, 4))
    IN  [id             |-> IdField(CompanyId(Col(cols, 1))),
         companyName    |-> GetText(Col(cols, 1)),
         symbol         |-> GetText(Col(cols, 2)),
         securityName   |-> GetText(Col(cols, 1)),
         status         |-> GetText(Col(cols, 3)),
         sectorName     |-> sector_name,
         instrumentType |-> GetText(Col(cols, 5)),
         companyEmail   |-> GetText(Col(cols, 6)),
         website        |-> GetText(Col(cols, 7)),
         regulatoryBody |-> get_regulatory_body(sector_name)]

(***************************** output file *********************************)
\* the file as it is before the run: missing, or left by an earlier run
FileBefore == [state |-> "before", doc |-> <<>>]

\* JSON values written by json.dump
JsonNull == [t |-> "null", n |-> 0, s |-> <<>>]
JsonNum(n) == [t |-> "number", n |-> n, s |-> <<>>]
JsonStr(s) == [t |-> "string", n |-> 0, s |-> s]

\* keys of a record in insertion order, the order json.dump writes them in
FieldOrder ==
    <<"id", "companyName", "symbol", "securityName", "status", "sectorName",
      "instrumentType", "companyEmail", "website", "regulatoryBody">>

\* int -> number, None -> null
JsonOfId(id) == IF id.kind = "int" THEN JsonNum(id.int) ELSE JsonNull

\* one record as a JSON object: its members <<key, value>> in order
JsonOfRecord(r) ==
    [k \in 1..Len(FieldOrder) |->
        <<FieldOrder[k],
          IF FieldOrder[k] = "id" THEN JsonOfId(r.id) ELSE JsonStr(r[FieldOrder[k]])>>]

\* json.dump(data, f, ensure_ascii=False, indent=2): a JSON array
json_dump(data) == [i \in 1..Len(data) |-> JsonOfRecord(data[i])]

(***************************** exceptions **********************************)
\* EarlyReturn with the flag test lost: the browser is always started
EarlyReturn_Never(flag) == FALSE

\* if not pull_latest: return []
EarlyReturn(flag) == ~flag

\* try: ... except NoSuchElementException: break      (pagination)
InPaginationTry(loc) == loc \in {"find_next", "click", "sleep3"}

\* try: ... except TimeoutException: break            (body of while True)
InLoopTry(loc) ==
    InPaginationTry(loc) \/ loc \in {"wait_table", "snapshot", "row", "log"}

\* InOuterTry with the try opened at the loop: navigation and the page-size
\* selection are not covered by the finally
InOuterTry_LoopOnly(loc) == InLoopTry(loc) \/ loc = "ret"

\* try: ... finally: driver.quit()
InOuterTry(loc) ==
    InLoopTry(loc) \/ loc \in {"get", "wait_select", "select", "sleep2", "ret"}

\* try: driver.execute_cdp_cmd(...) except Exception: pass     (init_driver)
InCdpTry(loc) == loc = "cdp"

\* where an exception e raised at statement loc is handled
HandlerOf(loc, e) ==
    IF InCdpTry(loc) THEN "pass"
    ELSE IF InPaginationTry(loc) /\ e = "NoSuchElementException" THEN "break"
    ELSE IF InLoopTry(loc) /\ e = "TimeoutException" THEN "break"
    ELSE IF InOuterTry(loc) THEN "finally"
    ELSE "caller"

\* raise e at loc
Raise(loc, e) ==
    LET h == HandlerOf(loc, e)
    IN  CASE h = "break"   -> pc' = "ret" /\ UNCHANGED <<exc, excAt, outcome>>
          [] h = "finally" -> pc' = "finally" /\ exc' = e /\ excAt' = loc /\ UNCHANGED outcome
          [] h = "caller"  -> pc' = "done" /\ exc' = e /\ excAt' = loc /\ outcome' = "raised"
          [] h = "pass"    -> pc' = "get" /\ UNCHANGED <<exc, excAt, outcome>>

Goto(p) == pc' = p /\ UNCHANGED <<exc, excAt, outcome>>

\* the passes beyond MaxPasses, which repeat the last one
Folded == page_no > MaxPasses

\* the operation log after browser operation op of the loop; the log stops
\* at the click that ends pass MaxPasses
Logged(op) == IF Folded /\ ops[Len(ops)] = "click" THEN ops ELSE Append(ops, op)

\* NextPresent of a page whose next-page control is never removed
NextPresent_Always == TRUE

\* find_element finds "li.pagination-next a": the component is not on its
\* last page, or the page shows the control there too
NextPresent == req < Len(site) \/ nextOnLast

(***************************** program *************************************)
\* the state at the call of get_companies on one of the given sites
InitOn(sites) ==
    /\ pull_latest \in BOOLEAN
    /\ nextOnLast \in BOOLEAN
    /\ IF nextOnLast THEN pull_latest /\ site \in LoopSites ELSE site \in sites
    /\ file = FileBefore
    /\ pc = "entry"
    /\ exc = "none"
    /\ excAt = "none"
    /\ outcome = "running"
    /\ result = <<>>
    /\ session = "none"
    /\ companies = <<>>
    /\ page_no = 0
    /\ rows = <<>>
    /\ req = 1
    /\ cur = 1
    /\ ops = <<>>
    /\ passes = <<>>
    /\ origin = <<>>
    /\ events = {}

Init == InitOn(Sites)

\* the runs checked for termination
TermInit == InitOn(TermSites)

\* get_companies, lines 87-91
Entry ==
    /\ pc = "entry"
    /\ IF EarlyReturn(pull_latest)
       THEN /\ result' = <<>>
            /\ outcome' = "returned"
            /\ pc' = "done"
            /\ UNCHANGED <<exc, excAt>>
       ELSE /\ Goto("chrome")
            /\ UNCHANGED result
    /\ UNCHANGED <<pull_latest, site, nextOnLast, file, session, companies, page_no, rows, req, cur,
                   ops, passes, origin, events>>

\* init_driver: driver = webdriver.Chrome(options=options)
Chrome ==
    /\ pc = "chrome"
    /\ \/ /\ session' = "open"
          /\ ops' = Append(ops, "new_session")
          /\ Goto("cdp")
          /\ UNCHANGED events
       \/ /\ Raise("chrome", "WebDriverException")
          /\ events' = events \cup {"chrome"}
          /\ UNCHANGED <<session, ops>>
    /\ UNCHANGED <<pull_latest, site, nextOnLast, file, result, companies, page_no, rows, req, cur,
                   passes, origin>>

\* init_driver: the guarded execute_cdp_cmd and the return; then
\* wait = WebDriverWait(driver, 60); companies = []; page_no = 1
Cdp ==
    /\ pc = "cdp"
    /\ ops' = Append(ops, "execute_cdp_cmd")
    /\ \/ /\ Goto("get")
          /\ UNCHANGED events
       \/ /\ Raise("cdp", "WebDriverException")
          /\ events' = events \cup {"cdp"}
    /\ companies' = <<>>
    /\ page_no' = 1
    /\ UNCHANGED <<pull_latest, site, nextOnLast, file, result, session, rows, req, cur, passes, origin>>

\* driver.get(url)
Get ==
    /\ pc = "get"
    /\ ops' = Append(ops, "get")
    /\ \/ /\ Goto("wait_select")
          /\ UNCHANGED events
       \/ /\ Raise("get", "WebDriverException")
          /\ events' = events \cup {"get"}
    /\ UNCHANGED <<pull_latest, site, nextOnLast, file, result, session, companies, page_no, rows, req,
                   cur, passes, origin>>

\* page_size_select = wait.until(presence_of_element_located(<select with option 500>))
WaitSelect ==
    /\ pc = "wait_select"
    /\ ops' = Append(ops, "wait_select")
    /\ \/ /\ Goto("select")
          /\ UNCHANGED events
       \/ /\ Raise("wait_select", "TimeoutException")
          /\ events' = events \cup {"dropdown"}
    /\ UNCHANGED <<pull_latest, site, nextOnLast, file, result, session, companies, page_no, rows, req,
                   cur, passes, origin>>

\* Select(page_size_select).select_by_value("500")
SelectPageSize ==
    /\ pc = "select"
    /\ ops' = Append(ops, "select")
    /\ Goto("sleep2")
    /\ UNCHANGED <<pull_latest, site, nextOnLast, file, result, session, companies, page_no, rows, req,
                   cur, passes, origin, events>>

\* time.sleep(2)
Sleep2 ==
    /\ pc = "sleep2"
    /\ Goto("wait_table")
    /\ UNCHANGED <<pull_latest, site, nextOnLast, file, result, session, companies, page_no, rows, req,
                   cur, ops, passes, origin, events>>

\* WaitTable that waits again after a timeout instead of raising
WaitTable_Retry ==
    /\ pc = "wait_table"
    /\ ops' = Logged("wait_table")
    /\ \/ /\ Goto("snapshot")
          /\ UNCHANGED events
       \/ /\ "table" \notin events
          /\ Goto("wait_table")
          /\ events' = events \cup {"table"}
       \/ /\ "table" \in events
          /\ Raise("wait_table", "TimeoutException")
          /\ UNCHANGED events
    /\ UNCHANGED <<pull_latest, site, nextOnLast, file, result, session, companies, page_no, rows, req,
                   cur, passes, origin>>

\* wait.until(presence_of_element_located((By.TAG_NAME, "table")))
WaitTable ==
    /\ pc = "wait_table"
    /\ ops' = Logged("wait_table")
    /\ \/ /\ Goto("snapshot")
          /\ UNCHANGED events
       \/ /\ Raise("wait_table", "TimeoutException")
          /\ events' = events \cup {"table"}
    /\ UNCHANGED <<pull_latest, site, nextOnLast, file, result, session, companies, page_no, rows, req,
                   cur, passes, origin>>

\* Snapshot with the accumulator created inside the loop: every pass starts
\* from an empty list
Snapshot_Reset ==
    /\ pc = "snapshot"
    /\ ops' = Logged("page_source")
    /\ rows' = site[cur]
    /\ passes' = IF Folded THEN passes ELSE Append(passes, cur)
    /\ events' = IF cur # req THEN events \cup {"stale"} ELSE events
    /\ companies' = <<>>
    /\ origin' = <<>>
    /\ Goto("row")
    /\ UNCHANGED <<pull_latest, site, nextOnLast, file, result, session, page_no, req, cur>>

\* soup = BeautifulSoup(driver.page_source, "html.parser"); rows = soup.select("tbody tr")
Snapshot ==
    /\ pc = "snapshot"
    /\ ops' = Logged("page_source")
    /\ rows' = site[cur]
    /\ passes' = IF Folded THEN passes ELSE Append(passes, cur)
    /\ events' = IF cur # req THEN events \cup {"stale"} ELSE events
    /\ Goto("row")
    /\ UNCHANGED <<pull_latest, site, nextOnLast, file, result, session, companies, page_no, req, cur,
                   origin>>

\* one iteration of: for row in rows
ProcessRow ==
    /\ pc = "row"
    /\ rows # <<>>
    /\ ~Folded \/ SkipRow(Head(rows))
    /\ LET cols == Head(rows)
           page == passes[Len(passes)]
           idx  == Len(site[page]) - Len(rows) + 1
       IN  IF SkipRow(cols)
           THEN /\ rows' = Tail(rows)
                /\ Goto("row")
                /\ UNCHANGED <<companies, origin, events>>
           ELSE IF MakeRecord(cols).id = RaisesValueError
           THEN /\ Raise("row", "ValueError")
                /\ events' = events \cup {"row_error"}
                /\ UNCHANGED <<companies, origin, rows>>
           ELSE /\ companies' = Append(companies, MakeRecord(cols))
                /\ origin' = Append(origin, <<Len(passes), page, idx>>)
                /\ rows' = Tail(rows)
                /\ Goto("row")
                /\ UNCHANGED events
    /\ UNCHANGED <<pull_latest, site, nextOnLast, file, result, session, page_no, req, cur, ops, passes>>

\* LogPage without the increment
LogPage_NoIncrement ==
    /\ pc = "row"
    /\ rows = <<>>
    /\ Goto("find_next")
    /\ UNCHANGED <<pull_latest, site, nextOnLast, file, result, session, companies, page_no, rows,
                   req, cur, ops, passes, origin, events>>

\* print(f"[Companies] Scraped page {page_no}"); page_no += 1
LogPage ==
    /\ pc = "row"
    /\ rows = <<>>
    /\ page_no' = IF Folded THEN page_no ELSE page_no + 1
    /\ Goto("find_next")
    /\ UNCHANGED <<pull_latest, site, nextOnLast, file, result, session, companies, rows, req, cur, ops,
                   passes, origin, events>>

\* next_btn = driver.find_element(By.CSS_SELECTOR, "li.pagination-next a")
FindNext ==
    /\ pc = "find_next"
    /\ ops' = Logged("find_element")
    /\ IF NextPresent
       THEN Goto("click")
       ELSE Raise("find_next", "NoSuchElementException")
    /\ UNCHANGED <<pull_latest, site, nextOnLast, file, result, session, companies, page_no, rows, req,
                   cur, passes, origin, events>>

\* next_btn.click()
Click ==
    /\ pc = "click"
    /\ ops' = Logged("click")
    /\ \/ /\ req' = IF req < Len(site) THEN req + 1 ELSE req
          /\ Goto("sleep3")
          /\ UNCHANGED events
       \/ /\ Raise("click", "WebDriverException")
          /\ events' = events \cup {"click"}
          /\ UNCHANGED req
    /\ UNCHANGED <<pull_latest, site, nextOnLast, file, result, session, companies, page_no, rows, cur,
                   passes, origin>>

\* Sleep3 of a loop that starts before the page-size selection
Sleep3_Reselect ==
    /\ pc = "sleep3"
    /\ Goto("select")
    /\ UNCHANGED <<pull_latest, site, nextOnLast, file, result, session, companies, page_no, rows, req,
                   cur, ops, passes, origin, events>>

\* time.sleep(3)
Sleep3 ==
    /\ pc = "sleep3"
    /\ Goto("wait_table")
    /\ UNCHANGED <<pull_latest, site, nextOnLast, file, result, session, companies, page_no, rows, req,
                   cur, ops, passes, origin, events>>

\* the page re-renders the table with the requested page's rows, at some
\* moment between the click and the next read of driver.page_source
Render ==
    /\ pc \in {"sleep3", "wait_table", "snapshot"}
    /\ cur # req
    /\ cur' = req
    /\ UNCHANGED <<pull_latest, site, nextOnLast, file, pc, exc, excAt, outcome, result, session,
                   companies, page_no, rows, req, ops, passes, origin, events>>

\* print(f"Fetched {len(companies)} companies"); return companies
Return ==
    /\ pc = "ret"
    /\ result' = companies
    /\ Goto("finally")
    /\ UNCHANGED <<pull_latest, site, nextOnLast, file, session, companies, page_no, rows, req, cur, ops,
                   passes, origin, events>>

\* finally: driver.quit()
Finally ==
    /\ pc = "finally"
    /\ ops' = Append(ops, "quit")
    /\ session' = "quit"
    /\ \/ /\ pc' = "done"
          /\ outcome' = IF exc = "none" THEN "returned" ELSE "raised"
          /\ UNCHANGED <<exc, excAt, events>>
       \/ /\ Raise("quit", "WebDriverException")
          /\ events' = events \cup {"quit"}
    /\ UNCHANGED <<pull_latest, site, nextOnLast, file, result, companies, page_no, rows, req, cur,
                   passes, origin>>

\* CallerProceeds of a caller that catches the error of get_companies
CallerProceeds_Always == outcome # "running"

\* data = get_companies(PULL_LATEST): the module body goes on only when the
\* call returned
CallerProceeds == outcome = "returned"

\* with open(OUTPUT_JSON, "w", encoding="utf-8") as f: json.dump(data, f, ...)
\* and the prints that follow
SaveJson ==
    /\ pc = "done"
    /\ CallerProceeds
    /\ \/ /\ file' = [state |-> "written", doc |-> json_dump(result)]
          /\ pc' = "saved"
          /\ UNCHANGED events
       \/ /\ pc' = "crashed"
          /\ events' = events \cup {"write"}
          /\ UNCHANGED file
    /\ UNCHANGED <<pull_latest, site, nextOnLast, exc, excAt, outcome, result, session,
                   companies, page_no, rows, req, cur, ops, passes, origin>>

Next ==
    \/ Entry
    \/ Chrome
    \/ Cdp
    \/ Get
    \/ WaitSelect
    \/ SelectPageSize
    \/ Sleep2
    \/ WaitTable
    \/ Snapshot
    \/ ProcessRow
    \/ LogPage
    \/ FindNext
    \/ Click
    \/ Sleep3
    \/ Render
    \/ Return
    \/ Finally
    \/ SaveJson

Spec == Init /\ [][Next]_vars

\* the interpreter runs the single thread whenever it can take a step
FairSpec == TermInit /\ [][Next]_vars /\ WF_vars(Next)

(***************************** properties **********************************)
\* the call of get_companies is over
Ended == pc \in {"done", "saved", "crashed"}

Count(op) == Cardinality({i \in 1..Len(ops) : ops[i] = op})

\* the row companies[i] was built from
OriginRow(i) == site[origin[i][2]][origin[i][3]]

\* rows of a page that have at least 8 cells, in row order
RECURSIVE WideRows(_)
WideRows(page) ==
    IF page = <<>> THEN <<>>
    ELSE IF Len(Head(page)) >= 8 THEN <<Head(page)>> \o WideRows(Tail(page))
    ELSE WideRows(Tail(page))

\* the Records of a page: one per row of at least 8 cells, in row order
RECURSIVE RecordsOfRows(_)
RecordsOfRows(rs) ==
    IF rs = <<>> THEN <<>> ELSE <<MakeRecord(Head(rs))>> \o RecordsOfRows(Tail(rs))

PageRecords(page) == RecordsOfRows(WideRows(page))

\* the Records of pages 1..n of the site, in page order
RECURSIVE RecordsUpTo(_)
RecordsUpTo(n) ==
    IF n = 0 THEN <<>> ELSE RecordsUpTo(n - 1) \o PageRecords(site[n])

\* C1: on a site of K pages (next-page control on pages 1..K-1 only) where
\* every wait succeeds and nothing else goes wrong in the browser, the call
\* makes exactly K extraction passes, over pages 1..K in order, and returns
\* the concatenation of the K pages' Records.
C1_Claim ==
    (pc = "done" /\ pull_latest /\ ~nextOnLast /\ events \subseteq {"cdp", "row_error"})
        => /\ outcome = "returned"
           /\ passes = [k \in 1..Len(site) |-> k]
           /\ result = RecordsUpTo(Len(site))

\* C2: when the wait for the table times out on page P, the call returns
\* exactly the Records of pages 1..P-1 and no exception reaches the caller.
C2_Claim ==
    (pc = "done" /\ "table" \in events /\ events \subseteq {"table", "cdp", "quit"})
        => /\ outcome = "returned"
           /\ result = RecordsUpTo(page_no - 1)

\* C3: every wait that times out (for the page-size dropdown or for the
\* table) ends the run with the Records accumulated so far returned; the
\* timeout never leaves get_companies as an exception.
C3_Claim ==
    (pc = "done" /\ events \cap {"dropdown", "table"} # {}
                 /\ events \subseteq {"dropdown", "table", "cdp"})
        => /\ outcome = "returned"
           /\ result = companies

\* C4: driver.quit is invoked exactly once on every exit path of a run that
\* created a session, never more than once, and never without a session.
C4_QuitOnce ==
    /\ Count("quit") <= 1
    /\ Count("new_session") <= 1
    /\ (session = "none") = (Count("new_session") = 0)
    /\ (session = "quit") = (Count("quit") = 1)
    /\ (pc = "done" /\ Count("new_session") = 1) => Count("quit") = 1

\* a run that ended by an exception raised during extraction, session quit
C4_Witness ==
    /\ pc = "done"
    /\ "row_error" \in events
    /\ outcome = "raised"
    /\ Count("quit") = 1

\* C5: with pull_latest false the call returns the empty list at once:
\* no session is created and no browser operation is performed.
C5_DisabledFetch ==
    ~pull_latest
        => /\ session = "none"
           /\ ops = <<>>
           /\ pc = "entry" \/ Ended
           /\ Ended => (outcome = "returned" /\ result = <<>>)

C5_Witness == ~pull_latest /\ pc = "done" /\ outcome = "returned"

\* C6: processing a row never raises: whatever its cells and its anchor, the
\* row is appended as one Record or skipped.
C6_Claim == "row_error" \notin events

\* number of Records extraction pass k appended
Contributed(k) == Cardinality({i \in 1..Len(origin) : origin[i][1] = k})

\* C7: an extraction pass that has ended appended exactly one Record per row
\* of at least 8 cells of the page it read, and none for the other rows.
C7_Claim ==
    \A k \in 1..Len(passes) :
        (k < Len(passes) \/ pc # "row")
            => Contributed(k) = Len(WideRows(site[passes[k]]))

\* the integer Python's int() gives for the last segment of the sample hrefs
ExpectedInt(href) ==
    CASE href = HrefNumeric -> 48
      [] href = HrefBare -> 7
      [] href = HrefNegative -> 0 - 3
      [] href = HrefUnderscore -> 48
      [] href = HrefSpace -> 5

\* C8: the id of every Record in the accumulator is an int or None, never a
\* str: None when the name cell has no anchor or the anchor no href, and
\* otherwise, when an int, the value of the href's last segment.
C8_IdIntOrNull ==
    \A i \in 1..Len(companies) :
        LET id == companies[i].id
            a  == Col(OriginRow(i), 1).a
        IN  /\ id.kind \in {"int", "none"}
            /\ (~a.present \/ ~a.hasHref) => id = NoneId
            /\ id.kind = "int" =>
                   /\ a.present /\ a.hasHref
                   /\ a.href \in {HrefNumeric, HrefBare, HrefNegative, HrefUnderscore,
                                  HrefSpace}
                   /\ id = IntId(ExpectedInt(a.href))
            /\ (a.present /\ a.hasHref /\ a.href = HrefNumeric) => id = IntId(48)

\* the accumulator holds an int id, a None id from a row without an anchor
\* and a None id from an anchor without href
C8_Witness ==
    /\ \E i \in 1..Len(companies) : companies[i].id = IntId(48)
    /\ \E i \in 1..Len(companies) :
           companies[i].id = NoneId /\ Col(OriginRow(i), 1).a = NoAnchor
    /\ \E i \in 1..Len(companies) :
           companies[i].id = NoneId /\ Col(OriginRow(i), 1).a = AnchorNoHref
    /\ pc = "done"

\* display text of column k (0-based) of the sample rows
ExpectedText(k) == <<ColLetter[k + 1]>>

\* C9: every Record maps cell 1 to companyName and securityName, cell 2 to
\* symbol, 3 to status, 4 to sectorName, 5 to instrumentType, 6 to
\* companyEmail, 7 to website; regulatoryBody is get_regulatory_body of the
\* sector, the same constant for all; cell 0 appears in no field.
C9_FieldMapping ==
    \A i \in 1..Len(companies) :
        LET r == companies[i]
        IN  /\ Len(OriginRow(i)) >= 8
            /\ DOMAIN r = {"id", "companyName", "symbol", "securityName", "status",
                           "sectorName", "instrumentType", "companyEmail", "website",
                           "regulatoryBody"}
            /\ r.companyName = ExpectedText(1)
            /\ r.securityName = r.companyName
            /\ r.symbol = ExpectedText(2)
            /\ r.status = ExpectedText(3)
            /\ r.sectorName = ExpectedText(4)
            /\ r.instrumentType = ExpectedText(5)
            /\ r.companyEmail = ExpectedText(6)
            /\ r.website = ExpectedText(7)
            /\ r.regulatoryBody = get_regulatory_body(r.sectorName)
            /\ r.regulatoryBody = "SEBON"
            /\ \A f \in {"companyName", "symbol", "securityName", "status", "sectorName",
                         "instrumentType", "companyEmail", "website"} :
                   r[f] # ExpectedText(0)

\* a Record built from a row of exactly 8 whitespace-padded cells
C9_Witness ==
    \E i \in 1..Len(companies) :
        /\ Len(OriginRow(i)) = 8
        /\ OriginRow(i)[3].text = CellText(3, TRUE)
        /\ companies[i].symbol = <<"c">>

\* C11 (as claimed): whatever the page does, the run eventually ends.
C11_Claim == <>Ended

\* C11 (amended): when the next-page control is absent on the last page, the
\* run eventually ends: the loop is left and get_companies returns or raises.
C11_Terminates == (~nextOnLast) ~> Ended

\* a run over a site of several pages that read one page per pass and returned
C11_Witness ==
    /\ pc = "done"
    /\ ~nextOnLast
    /\ outcome = "returned"
    /\ Len(site) >= 2
    /\ Len(passes) = Len(site)

\* C10: a failure of the fingerprint-suppression script or of driver.quit is
\* swallowed: the run still returns the accumulated Records.
C10_Claim ==
    (pc = "done" /\ pull_latest /\ events # {} /\ events \subseteq {"cdp", "quit"})
        => /\ outcome = "returned"
           /\ result = companies

\* C12: with a table that re-renders asynchronously after a click, every
\* extraction pass reads a page not read before and no page is skipped: pass
\* k reads page k.
C12_Claim ==
    ~nextOnLast => \A k \in 1..Len(passes) : passes[k] = k

\* state of the pagination controller
Ctl ==
    IF session = "none" \/ pc \in {"entry", "chrome", "cdp", "get"} \/ "get" \in events
    THEN "Idle"
    ELSE IF pc \in {"wait_select", "select", "sleep2"} THEN "Start"
    ELSE IF pc = "wait_table" THEN "AwaitTable"
    ELSE IF pc \in {"snapshot", "row"} THEN "Extracting"
    ELSE IF pc \in {"find_next", "click", "sleep3"} THEN "Advancing"
    ELSE IF events \cap {"dropdown", "row_error", "click"} # {} THEN "Failed"
    ELSE IF "table" \in events THEN "Aborted"
    ELSE "Done"

CtlTransitions ==
    {<<"Idle", "Start">>,
     <<"Start", "AwaitTable">>,
     <<"AwaitTable", "Extracting">>,
     <<"AwaitTable", "Aborted">>,
     <<"Extracting", "Advancing">>,
     <<"Advancing", "AwaitTable">>,
     <<"Advancing", "Done">>}

\* C13: the controller takes only the transitions of CtlTransitions (Done and
\* Aborted are terminal), and every read of the page for extraction directly
\* follows a successful wait for the table.
C13_Claim ==
    /\ [][Ctl' = Ctl \/ <<Ctl, Ctl'>> \in CtlTransitions]_vars
    /\ [](\A i \in 1..Len(ops) :
              ops[i] = "page_source" => (i > 1 /\ ops[i - 1] = "wait_table"))

\* C14 (as claimed): in a run whose navigation succeeded the page size is
\* selected exactly once.
C14_Claim ==
    (pc = "done" /\ pull_latest /\ events \cap {"chrome", "get"} = {})
        => Count("select") = 1

\* C14 (amended): the page size is selected at most once, after navigation
\* and before the first wait for the table, never after a click; exactly once
\* in every run whose navigation and wait for the dropdown succeeded, and not
\* at all in a run whose wait for the dropdown timed out.
C14_SelectOnce ==
    /\ Count("select") <= 1
    /\ \A i \in 1..Len(ops) :
           ops[i] \in {"wait_table", "page_source", "find_element", "click"}
               => \E j \in 1..(i - 1) :
                      /\ ops[j] = "select"
                      /\ \E k \in 1..(j - 1) : ops[k] = "get"
    /\ \A i \in 1..Len(ops) :
           ops[i] = "click" => \A j \in i..Len(ops) : ops[j] # "select"
    /\ (pc = "done" /\ pull_latest /\ events \cap {"chrome", "get", "dropdown"} = {})
           => Count("select") = 1
    /\ "dropdown" \in events => Count("select") = 0

\* a finished run that clicked the next-page control
C14_Witness == pc = "done" /\ Count("click") >= 1 /\ Count("select") = 1

TimedOut == events \cap {"dropdown", "table"} # {}

\* C15: once a wait has timed out the run only leaves the loop, returns and
\* closes the session: no further wait, navigation, selection, extraction or
\* click.
C15_NoRetry ==
    [][/\ TimedOut' => pc' \notin {"entry", "chrome", "cdp", "get", "wait_select",
                                   "select", "sleep2", "wait_table", "snapshot", "row",
                                   "find_next", "click", "sleep3"}
       /\ TimedOut => /\ ops' = ops \/ ops' = Append(ops, "quit")
                      /\ passes' = passes
                      /\ companies' = companies
                      /\ req' = req]_vars

\* a run whose wait for the table timed out after a first pass and a click
C15_Witness ==
    /\ pc = "done"
    /\ "table" \in events
    /\ Count("click") >= 1
    /\ ops[Len(ops)] = "quit"
    /\ ops[Len(ops) - 1] = "wait_table"

IsPrefix(a, b) == Len(a) <= Len(b) /\ SubSeq(b, 1, Len(a)) = a

\* C16: the accumulator is append-only: in every step the old accumulator is
\* a prefix of the new one, and only the processing of a row changes it.
C16_AppendOnly ==
    [][/\ IsPrefix(companies, companies')
       /\ Len(companies') <= Len(companies) + 1
       /\ pc # "row" => companies' = companies]_vars

\* Records of two different passes are in the accumulator of a finished run
C16_Witness ==
    /\ pc = "done"
    /\ Len(companies) >= 2
    /\ origin[1][1] # origin[Len(origin)][1]

\* extraction passes that ran to the end of their page
CompletedPasses ==
    Len(passes) - (IF pc = "row" \/ "row_error" \in events THEN 1 ELSE 0)

\* C17: in the loop the page counter is the number of completed extraction
\* passes plus one (for the passes that are counted).
C17_PageCounter ==
    (session # "none" /\ pc \notin {"entry", "chrome", "cdp"} /\ ~Folded)
        => page_no = CompletedPasses + 1

\* a run that completed a pass, clicked and then timed out waiting for the table
C17_Witness ==
    /\ pc = "done"
    /\ "table" \in events
    /\ Len(passes) = 1
    /\ page_no = 2

\* the JSON object expected for Record r
ExpectedObject(r) ==
    << <<"id", IF r.id = NoneId THEN JsonNull ELSE JsonNum(r.id.int)>>,
       <<"companyName", JsonStr(r.companyName)>>,
       <<"symbol", JsonStr(r.symbol)>>,
       <<"securityName", JsonStr(r.securityName)>>,
       <<"status", JsonStr(r.status)>>,
       <<"sectorName", JsonStr(r.sectorName)>>,
       <<"instrumentType", JsonStr(r.instrumentType)>>,
       <<"companyEmail", JsonStr(r.companyEmail)>>,
       <<"website", JsonStr(r.website)>>,
       <<"regulatoryBody", JsonStr(r.regulatoryBody)>> >>

\* C18: the output file changes only in the step after get_companies
\* returned, and then holds exactly the returned sequence (the empty array
\* when fetching is disabled or the first wait for the table timed out);
\* when get_companies raises the file stays as it was.
C18_OutputFile ==
    /\ [][file' # file => /\ pc = "done"
                          /\ outcome = "returned"
                          /\ file = FileBefore
                          /\ file'.state = "written"]_vars
    /\ [](outcome # "returned" => file = FileBefore)
    /\ [](file.state = "written" =>
              /\ outcome = "returned"
              /\ Len(file.doc) = Len(result)
              /\ \A i \in 1..Len(result) : file.doc[i] = ExpectedObject(result[i])
              /\ (~pull_latest \/ passes = <<>>) => file.doc = <<>>)

\* a written file that holds a Record with a number id and one with a null id
C18_Witness ==
    /\ pc = "saved"
    /\ file.state = "written"
    /\ \E i \in 1..Len(file.doc) : file.doc[i][1][2] = JsonNum(48)
    /\ \E i \in 1..Len(file.doc) : file.doc[i][1][2] = JsonNull

====
